---- MODULE Spec2Model ----
(***************************************************************************)
(* Request-to-query translation layer of the user service (src/main.rs):   *)
(* the five actix handlers get_all_users, register_user, update_user,      *)
(* delete_user and get_user_by_id, run against a model of the users table  *)
(* (id uuid PRIMARY KEY, name text, email text) of the CQL store.          *)
(*                                                                         *)
(* Every handler is cut at its await points: one action receives the       *)
(* request and builds the statement, one action per store round trip       *)
(* (query_iter / query_unpaged returning, try_next returning) runs the     *)
(* handler up to its next await or to its response.                        *)
(*                                                                         *)
(* A statement is the sequence of its tokens together with the list of     *)
(* bound values; the store parses the tokens, so a statement the handler   *)
(* builds wrongly is rejected by the store as it is by the database.       *)
(***************************************************************************)
EXTENDS Integers, Sequences, FiniteSets, TLC

\* ------------------------------------------------------------------ domains

\* Bound on the number of requests the routing layer dispatches in one run.
MaxReqs == 4

\* The same bound for the runs the fair specification follows.
MaxLiveReqs == 3
MaxConcReqs == 2

\* HttpResponse::Ok(), ::Created(), ::NotFound(), ::InternalServerError()
Ok == 200
Created == 201
NotFound == 404
InternalServerError == 500

\* The identifiers the model draws from (Uuid values).
Uuids == {"u1", "u2"}

\* The text values a payload can carry for name and email.
Vals == {"A", "B"}

\* Option::None of an UpdateUser field.
None == "None"

\* A column the store holds no value for.
Null == "null"

\* The tasks that run handlers; SeqProcs are those the sequential schedule uses.
Procs == {"t1", "t2"}
SeqProcs == {"t1"}

NilUuid == "nil"

VARIABLES
    store,      \* the users table: Uuid -> row
    issued,     \* the identifiers Uuid::new_v4 has returned, in order
    life,       \* per id: "never" created, "live", or "deleted" (history)
    req,        \* per task: the request it serves and the handler's locals
    last,       \* the request that responded last, until the next dispatch
    nreq        \* requests dispatched so far

vars == <<store, issued, life, req, last, nreq>>

\* ------------------------------------------------------------------ records

NoRow == [live |-> FALSE, name |-> Null, email |-> Null]

\* struct User { id, name, email }
User(id, name, email) == [id |-> id, name |-> name, email |-> email]

NoUser == User(NilUuid, Null, Null)

NoLast == [op |-> "none", id |-> NilUuid, name |-> None, email |-> None,
           status |-> 0, pre |-> NoRow]

Idle == [op |-> "none", id |-> NilUuid, name |-> None, email |-> None,
         pc |-> "idle", query |-> <<>>, params |-> <<>>,
         stream |-> <<>>, users |-> <<>>, user |-> NoUser,
         status |-> 0, nresp |-> 0, nexec |-> 0, npull |-> 0,
         seq |-> 0, conc |-> {},
         fault |-> "none", served |-> <<>>, pre |-> NoRow, prev |-> NoLast]

\* ------------------------------------------------------------------ sequences

RECURSIVE Count(_, _)
Count(s, x) ==
    IF s = <<>> THEN 0
    ELSE (IF Head(s) = x THEN 1 ELSE 0) + Count(Tail(s), x)

RECURSIVE Perms(_)
Perms(S) ==
    IF S = {} THEN {<<>>}
    ELSE UNION {{<<x>> \o t : t \in Perms(S \ {x})} : x \in S}

\* ------------------------------------------------------------------ query building

\* format!("{}", uuid): the text of a uuid inside a statement.
Display(u) == ToString(u)

\* "SELECT id, name, email FROM {}.users"
ListAllQuery == <<"SELECT", "id", ",", "name", ",", "email", "FROM", "users">>

\* "INSERT INTO {}.users (id, name, email) VALUES (?, ?, ?)"
InsertQuery ==
    <<"INSERT", "INTO", "users", "(", "id", ",", "name", ",", "email", ")",
      "VALUES", "(", "?", ",", "?", ",", "?", ")">>

\* (a variant of InsertParams that binds the two text values in the other order)
InsertParamsSwapped(id, name, email) == <<id, email, name>>

\* (new_id, new_user.name.clone(), new_user.email.clone())
InsertParams(id, name, email) == <<id, name, email>>

\* "DELETE FROM {}.users WHERE id = ?"
DeleteQuery == <<"DELETE", "FROM", "users", "WHERE", "id", "=", "?">>

\* (a variant of GetByIdQuery whose text is the statement of delete_user)
GetByIdQueryDeletes == DeleteQuery

\* "SELECT id, name, email FROM {}.users WHERE id = ?"
GetByIdQuery ==
    <<"SELECT", "id", ",", "name", ",", "email", "FROM", "users",
      "WHERE", "id", "=", "?">>

IdParams(id) == <<id>>

\* (a variant of PushField that names the column name whatever the field)
PushFieldName(q, col, v) ==
    IF v # None THEN q \o <<"name", "=", "?", ",">> ELSE q

\* query.push_str(" name = ?,") when the field is Some
PushField(q, col, v) ==
    IF v # None THEN q \o <<col, "=", "?", ",">> ELSE q

\* params.push(v.clone()) when the field is Some
PushParam(ps, v) == IF v # None THEN Append(ps, v) ELSE ps

\* (a variant of PopComma that leaves the statement as it is)
PopCommaKeeps(q) == q

\* if query.ends_with(',') { query.pop(); }
PopComma(q) ==
    IF Len(q) > 0 /\ q[Len(q)] = "," THEN SubSeq(q, 1, Len(q) - 1) ELSE q

\* query.push_str(format!(" WHERE id = {}", user_id_value))
PushWhere(q, id) == q \o <<"WHERE", "id", "=", Display(id)>>

UpdateQuery(id, name, email) ==
    PushWhere(
        PopComma(PushField(PushField(<<"UPDATE", "users", "SET">>, "name", name),
                           "email", email)),
        id)

UpdateParams(id, name, email) == PushParam(PushParam(<<>>, name), email)

\* ------------------------------------------------------------------ the store

RECURSIVE IndexOf(_, _, _)
IndexOf(q, tok, i) ==
    IF i > Len(q) THEN 0
    ELSE IF q[i] = tok THEN i ELSE IndexOf(q, tok, i + 1)

\* The bind markers of a statement.
Markers(q) == Count(q, "?")

IsUuidLiteral(tok) == \E u \in Uuids : Display(u) = tok

ParseUuid(tok) == CHOOSE u \in Uuids : Display(u) = tok

\* The tokens between SET and WHERE of an UPDATE.
SetClause(q) == SubSeq(q, 4, IndexOf(q, "WHERE", 1) - 1)

\* CQL: SET takes one or more assignments  col = ?  separated by commas.
ValidAssignments(s) ==
    /\ Len(s) >= 3
    /\ Len(s) % 4 = 3
    /\ \A i \in 1..Len(s) :
          CASE i % 4 = 1 -> s[i] \in {"name", "email"}
            [] i % 4 = 2 -> s[i] = "="
            [] i % 4 = 3 -> s[i] = "?"
            [] OTHER     -> s[i] = ","

\* CQL: WHERE id = <bind marker or uuid literal> ends the statement.
ValidWhere(q) ==
    LET w == IndexOf(q, "WHERE", 1) IN
    /\ w > 0
    /\ Len(q) = w + 3
    /\ q[w + 1] = "id"
    /\ q[w + 2] = "="
    /\ (q[w + 3] = "?" \/ IsUuidLiteral(q[w + 3]))

\* CQL: the projection of the three columns of the table.
CqlSelect == <<"SELECT", "id", ",", "name", ",", "email", "FROM", "users">>

\* CQL: an insert of the three columns from three bind markers.
CqlInsert ==
    <<"INSERT", "INTO", "users", "(", "id", ",", "name", ",", "email", ")",
      "VALUES", "(", "?", ",", "?", ",", "?", ")">>

\* The store prepares a statement only when it parses, and executes it only
\* with one bound value per bind marker.
Accepts(q, params) ==
    /\ Len(q) > 0
    /\ CASE q[1] = "SELECT" ->
                \/ q = CqlSelect
                \/ (SubSeq(q, 1, Len(CqlSelect)) = CqlSelect /\ ValidWhere(q))
         [] q[1] = "INSERT" -> q = CqlInsert
         [] q[1] = "DELETE" ->
                SubSeq(q, 1, 3) = <<"DELETE", "FROM", "users">> /\ ValidWhere(q)
         [] q[1] = "UPDATE" ->
                /\ SubSeq(q, 1, 3) = <<"UPDATE", "users", "SET">>
                /\ ValidWhere(q)
                /\ ValidAssignments(SetClause(q))
         [] OTHER -> FALSE
    /\ Markers(q) = Len(params)

\* The id a WHERE id = ... predicate selects: the last bound value for a bind
\* marker, the literal otherwise.
WhereId(q, params) ==
    IF q[Len(q)] = "?" THEN params[Len(params)] ELSE ParseUuid(q[Len(q)])

\* (a variant of Assigned in which a column the clause does not assign is
\* overwritten with no value)
AssignedOrNull(s, params, col, old) ==
    LET ks == {k \in 1..((Len(s) + 1) \div 4) : s[4 * (k - 1) + 1] = col} IN
    IF ks = {} THEN Null ELSE params[CHOOSE k \in ks : \A j \in ks : j <= k]

\* The value SET gives column col: the bound value of its assignment, or old
\* when the clause does not assign the column.
Assigned(s, params, col, old) ==
    LET ks == {k \in 1..((Len(s) + 1) \div 4) : s[4 * (k - 1) + 1] = col} IN
    IF ks = {} THEN old ELSE params[CHOOSE k \in ks : \A j \in ks : j <= k]

\* INSERT writes the whole row.
ExecInsert(st, params) ==
    [st EXCEPT ![params[1]] =
        [live |-> TRUE, name |-> params[2], email |-> params[3]]]

\* CQL UPDATE is an upsert: it writes the assigned columns of the row with that
\* key whether or not the row existed; the other columns keep what they held
\* (nothing, for a row that did not exist).
ExecUpdate(st, q, params) ==
    LET id == WhereId(q, params)
        s  == SetClause(q)
    IN  [st EXCEPT ![id] =
            [live  |-> TRUE,
             name  |-> Assigned(s, params, "name", st[id].name),
             email |-> Assigned(s, params, "email", st[id].email)]]

\* (a variant of ExecDelete that removes nothing)
ExecDeleteNothing(st, q, params) == st

\* DELETE removes the row with that key, if any.
ExecDelete(st, q, params) == [st EXCEPT ![WhereId(q, params)] = NoRow]

\* The store runs whatever statement it is sent: what it does is decided by the
\* statement's text, not by the handler that sent it.  A SELECT writes nothing.
Execute(st, q, params) ==
    CASE q[1] = "INSERT" -> ExecInsert(st, params)
      [] q[1] = "UPDATE" -> ExecUpdate(st, q, params)
      [] q[1] = "DELETE" -> ExecDelete(st, q, params)
      [] OTHER -> st

RowOf(st, id) == User(id, st[id].name, st[id].email)

\* The rows a full scan delivers: every row once, in an order the store picks.
SelectAll(st) == Perms({RowOf(st, id) : id \in {u \in Uuids : st[u].live}})

\* The rows a primary-key lookup delivers: the row with that key, or none.
SelectById(st, q, params) ==
    LET id == WhereId(q, params) IN
    IF st[id].live THEN <<RowOf(st, id)>> ELSE <<>>

\* A row deserializes into (Uuid, String, String) only when both text columns
\* hold a value.
Decodes(row) == row.name # Null /\ row.email # Null

\* (a variant of NewV4 that may repeat an identifier)
NewV4Any(iss, st) == Uuids

\* Uuid::new_v4(): a random identifier, taken to differ from every one issued
\* earlier and from the id of every row the store holds.
NewV4(iss, st) ==
    Uuids \ ({iss[i] : i \in 1..Len(iss)} \cup {u \in Uuids : st[u].live})

\* ------------------------------------------------------------------ handlers

Init ==
    /\ store = [u \in Uuids |-> NoRow]
    /\ issued = <<>>
    /\ life = [u \in Uuids |-> "never"]
    /\ req = [p \in Procs |-> Idle]
    /\ last = NoLast
    /\ nreq = 0

\* What is kept of a request once it has responded.
Summary(r) ==
    [op |-> r.op, id |-> r.id, name |-> r.name, email |-> r.email,
     status |-> r.status, pre |-> r.pre]

\* The routing layer hands a task a request only when the task serves none.
CanDispatch(p) == req[p].pc \in {"idle", "done"} /\ nreq < MaxReqs

\* A request as the handler holds it when it awaits its statement's execution.
Received(op, id, name, email, q, params) ==
    [Idle EXCEPT !.op = op, !.id = id, !.name = name, !.email = email,
                 !.pc = "exec", !.query = q, !.params = params]

\* The requests other tasks are serving at the moment, by number.
Concurrent(p) ==
    {req[o].seq : o \in {t \in Procs \ {p} : req[t].pc \in {"exec", "pull"}}}

\* The request is numbered in order of arrival and starts on its own task,
\* whatever the other tasks are doing.
Dispatch(p, r) ==
    /\ CanDispatch(p)
    /\ req' = [req EXCEPT ![p] = [r EXCEPT !.seq = nreq + 1,
                                          !.conc = Concurrent(p)]]
    /\ last' = NoLast
    /\ nreq' = nreq + 1

\* (a variant of Responded in which the handler runs on after it has responded)
RespondedRunsOn(r, status) ==
    [r EXCEPT !.status = status, !.nresp = @ + 1]

\* The handler returns its HttpResponse: the request reaches a terminal state.
Responded(r, status) ==
    [r EXCEPT !.pc = "done", !.status = status, !.nresp = @ + 1, !.stream = <<>>]

Respond(p, r, status) ==
    /\ req' = [req EXCEPT ![p] = Responded(r, status)]
    /\ last' = Summary(Responded(r, status))

\* The handler goes on to its next await.
Continue(p, r) ==
    /\ req' = [req EXCEPT ![p] = r]
    /\ UNCHANGED last

\* The request's statement has gone to the store once more (query_iter or
\* query_unpaged was awaited).
Executed(r) == [r EXCEPT !.nexec = @ + 1]

\* The request has asked the store's row sequence for one more row
\* (try_next() was awaited).
Pulled(r) == [r EXCEPT !.npull = @ + 1]

\* What try_next() returns: Ok(Some(row)), Ok(None) or Err(_).
PullSome(row) == [ok |-> TRUE, row |-> row]
PullNone == [ok |-> TRUE, row |-> NoUser]
PullErr == [ok |-> FALSE, row |-> NoUser]

\* --- get_all_users

ListReceive(p) ==
    /\ Dispatch(p, Received("list", NilUuid, None, None, ListAllQuery, <<>>))
    /\ UNCHANGED <<store, issued, life>>

\* session.query_iter(...).await, then results.rows_stream::<(Uuid, String, String)>()
ListQueryReturns(p) ==
    /\ req[p].op = "list" /\ req[p].pc = "exec"
    /\ \/ /\ Respond(p, [Executed(req[p]) EXCEPT !.fault = "exec"],
                     InternalServerError)
          /\ UNCHANGED store
       \/ /\ ~Accepts(req[p].query, req[p].params)
          /\ Respond(p, [Executed(req[p]) EXCEPT !.fault = "syntax"],
                     InternalServerError)
          /\ UNCHANGED store
       \/ /\ Accepts(req[p].query, req[p].params)
          /\ store' = Execute(store, req[p].query, req[p].params)
          /\ Respond(p, [Executed(req[p]) EXCEPT !.fault = "type"],
                     InternalServerError)
       \/ /\ Accepts(req[p].query, req[p].params)
          /\ store' = Execute(store, req[p].query, req[p].params)
          /\ \E rows \in SelectAll(store) :
                Continue(p, [Executed(req[p]) EXCEPT !.pc = "pull", !.stream = rows,
                                           !.served = rows])
    /\ UNCHANGED <<issued, life, nreq>>

\* (a variant of ListOnPull that takes Err(_) for the end of the sequence)
ListOnPullUnwrapOrNone(p, r, res) ==
    IF res.ok /\ res.row # NoUser
    THEN Continue(p, [r EXCEPT !.users = Append(@, res.row), !.stream = Tail(@)])
    ELSE Respond(p, r, Ok)

\* (a variant of ListOnPull that puts each row in front of the collection)
ListOnPullPrepends(p, r, res) ==
    IF ~res.ok THEN Respond(p, r, InternalServerError)
    ELSE IF res.row # NoUser
         THEN Continue(p, [r EXCEPT !.users = <<res.row>> \o @,
                                    !.stream = Tail(@)])
         ELSE Respond(p, r, Ok)

\* while let Some(row) = match rows_stream.try_next().await {
\*     Ok(row) => row, Err(e) => return 500 } { users.push(..) }  ... 200 with users
ListOnPull(p, r, res) ==
    IF ~res.ok THEN Respond(p, r, InternalServerError)
    ELSE IF res.row # NoUser
         THEN Continue(p, [r EXCEPT !.users = Append(@, res.row),
                                    !.stream = Tail(@)])
         ELSE Respond(p, r, Ok)

ListPull(p) ==
    /\ req[p].op = "list" /\ req[p].pc = "pull"
    /\ \/ ListOnPull(p, [Pulled(req[p]) EXCEPT !.fault = "pull"], PullErr)
       \/ /\ req[p].stream # <<>>
          /\ ~Decodes(Head(req[p].stream))
          /\ ListOnPull(p, [Pulled(req[p]) EXCEPT !.fault = "decode"], PullErr)
       \/ /\ req[p].stream # <<>>
          /\ Decodes(Head(req[p].stream))
          /\ ListOnPull(p, Pulled(req[p]), PullSome(Head(req[p].stream)))
       \/ /\ req[p].stream = <<>>
          /\ ListOnPull(p, Pulled(req[p]), PullNone)
    /\ UNCHANGED <<store, issued, life, nreq>>

\* --- register_user

CreateReceive(p) ==
    \E name \in Vals, email \in Vals :
    \E id \in NewV4(issued, store) :
        /\ Dispatch(p, Received("create", id, name, email,
                                InsertQuery, InsertParams(id, name, email)))
        /\ issued' = Append(issued, id)
        /\ UNCHANGED <<store, life>>

\* session.query_unpaged(...).await and the match on its result
CreateReturns(p) ==
    /\ req[p].op = "create" /\ req[p].pc = "exec"
    /\ \/ /\ Respond(p, [Executed(req[p]) EXCEPT !.fault = "exec"], InternalServerError)
          /\ UNCHANGED <<store, life>>
       \/ /\ ~Accepts(req[p].query, req[p].params)
          /\ Respond(p, [Executed(req[p]) EXCEPT !.fault = "syntax"], InternalServerError)
          /\ UNCHANGED <<store, life>>
       \/ /\ Accepts(req[p].query, req[p].params)
          /\ store' = Execute(store, req[p].query, req[p].params)
          /\ life' = [life EXCEPT ![req[p].id] = "live"]
          /\ Respond(p, Executed(req[p]), Created)
    /\ UNCHANGED <<issued, nreq>>

\* --- update_user

UpdateReceive(p) ==
    \E id \in Uuids, name \in Vals \cup {None}, email \in Vals \cup {None} :
        /\ Dispatch(p, Received("update", id, name, email,
                                UpdateQuery(id, name, email),
                                UpdateParams(id, name, email)))
        /\ UNCHANGED <<store, issued, life>>

\* (a variant of UpdateReturns that sends the statement again after a failure)
UpdateReturnsRetry(p) ==
    LET r == [Executed(req[p]) EXCEPT !.pre = store[req[p].id]] IN
    /\ req[p].op = "update" /\ req[p].pc = "exec"
    /\ \/ /\ req[p].nexec = 0
          /\ Continue(p, [r EXCEPT !.fault = "exec"])
          /\ UNCHANGED store
       \/ /\ Respond(p, [r EXCEPT !.fault = "exec"], InternalServerError)
          /\ UNCHANGED store
       \/ /\ Accepts(req[p].query, req[p].params)
          /\ store' = Execute(store, req[p].query, req[p].params)
          /\ Respond(p, r, Ok)
    /\ UNCHANGED <<issued, life, nreq>>

\* session.query_unpaged(query, params).await and the match on its result
UpdateReturns(p) ==
    LET r == [Executed(req[p]) EXCEPT !.pre = store[req[p].id]] IN
    /\ req[p].op = "update" /\ req[p].pc = "exec"
    /\ \/ /\ Respond(p, [r EXCEPT !.fault = "exec"], InternalServerError)
          /\ UNCHANGED store
       \/ /\ ~Accepts(req[p].query, req[p].params)
          /\ Respond(p, [r EXCEPT !.fault = "syntax"], InternalServerError)
          /\ UNCHANGED store
       \/ /\ Accepts(req[p].query, req[p].params)
          /\ store' = Execute(store, req[p].query, req[p].params)
          /\ Respond(p, r, Ok)
    /\ UNCHANGED <<issued, life, nreq>>

\* --- delete_user

DeleteReceive(p) ==
    \E id \in Uuids :
        /\ Dispatch(p, Received("delete", id, None, None, DeleteQuery, IdParams(id)))
        /\ UNCHANGED <<store, issued, life>>

\* (a variant of DeleteReturns that reports an id without a row as not found)
DeleteReturnsNotFound(p) ==
    LET r == [Executed(req[p]) EXCEPT !.pre = store[req[p].id]] IN
    /\ req[p].op = "delete" /\ req[p].pc = "exec"
    /\ \/ /\ Respond(p, [r EXCEPT !.fault = "exec"], InternalServerError)
          /\ UNCHANGED <<store, life>>
       \/ /\ Accepts(req[p].query, req[p].params)
          /\ store' = Execute(store, req[p].query, req[p].params)
          /\ life' = [life EXCEPT ![req[p].id] =
                          IF @ = "live" THEN "deleted" ELSE @]
          /\ Respond(p, r, IF r.pre.live THEN Ok ELSE NotFound)
    /\ UNCHANGED <<issued, nreq>>

\* session.query_unpaged(query, (user_id_value,)).await and the match on its result
DeleteReturns(p) ==
    LET r == [Executed(req[p]) EXCEPT !.pre = store[req[p].id]] IN
    /\ req[p].op = "delete" /\ req[p].pc = "exec"
    /\ \/ /\ Respond(p, [r EXCEPT !.fault = "exec"], InternalServerError)
          /\ UNCHANGED <<store, life>>
       \/ /\ ~Accepts(req[p].query, req[p].params)
          /\ Respond(p, [r EXCEPT !.fault = "syntax"], InternalServerError)
          /\ UNCHANGED <<store, life>>
       \/ /\ Accepts(req[p].query, req[p].params)
          /\ store' = Execute(store, req[p].query, req[p].params)
          /\ life' = [life EXCEPT ![req[p].id] =
                          IF @ = "live" THEN "deleted" ELSE @]
          /\ Respond(p, r, Ok)
    /\ UNCHANGED <<issued, nreq>>

\* --- get_user_by_id

\* The response a Get follows: the last one, when it reported success for the
\* same id.
Preceding(id) ==
    IF last.id = id /\ last.status \in {Ok, Created} THEN last ELSE NoLast

GetReceive(p) ==
    \E id \in Uuids :
        /\ Dispatch(p, [Received("get", id, None, None, GetByIdQuery, IdParams(id))
                           EXCEPT !.prev = Preceding(id)])
        /\ UNCHANGED <<store, issued, life>>

\* session.query_iter(...).await, then results.rows_stream::<(Uuid, String, String)>()
GetQueryReturns(p) ==
    /\ req[p].op = "get" /\ req[p].pc = "exec"
    /\ \/ /\ Respond(p, [Executed(req[p]) EXCEPT !.fault = "exec"],
                     InternalServerError)
          /\ UNCHANGED store
       \/ /\ ~Accepts(req[p].query, req[p].params)
          /\ Respond(p, [Executed(req[p]) EXCEPT !.fault = "syntax"],
                     InternalServerError)
          /\ UNCHANGED store
       \/ /\ Accepts(req[p].query, req[p].params)
          /\ store' = Execute(store, req[p].query, req[p].params)
          /\ Respond(p, [Executed(req[p]) EXCEPT !.fault = "type"],
                     InternalServerError)
       \/ /\ Accepts(req[p].query, req[p].params)
          /\ store' = Execute(store, req[p].query, req[p].params)
          /\ LET rows == SelectById(store, req[p].query, req[p].params) IN
             Continue(p, [Executed(req[p]) EXCEPT !.pc = "pull", !.stream = rows,
                                        !.served = rows])
    /\ UNCHANGED <<issued, life, nreq>>

\* .unwrap_or(None): Err(_) becomes None.
UnwrapOrNone(res) == IF res.ok THEN res.row ELSE NoUser

\* if let Some(row) = rows_stream.try_next().await.unwrap_or(None) {
\*     200 with the User } else { 404 }
GetOnPull(p, r, res) ==
    LET row == UnwrapOrNone(res) IN
    IF row # NoUser
    THEN Respond(p, [r EXCEPT !.user = row], Ok)
    ELSE Respond(p, r, NotFound)

GetPull(p) ==
    /\ req[p].op = "get" /\ req[p].pc = "pull"
    /\ \/ GetOnPull(p, [Pulled(req[p]) EXCEPT !.fault = "pull"], PullErr)
       \/ /\ req[p].stream # <<>>
          /\ ~Decodes(Head(req[p].stream))
          /\ GetOnPull(p, [Pulled(req[p]) EXCEPT !.fault = "decode"], PullErr)
       \/ /\ req[p].stream # <<>>
          /\ Decodes(Head(req[p].stream))
          /\ GetOnPull(p, Pulled(req[p]), PullSome(Head(req[p].stream)))
       \/ /\ req[p].stream = <<>>
          /\ GetOnPull(p, Pulled(req[p]), PullNone)
    /\ UNCHANGED <<store, issued, life, nreq>>

\* ------------------------------------------------------------------ specifications

\* A store round trip of task p returns and its handler runs on.
Progress(p) ==
    \/ ListQueryReturns(p)
    \/ ListPull(p)
    \/ CreateReturns(p)
    \/ UpdateReturns(p)
    \/ DeleteReturns(p)
    \/ GetQueryReturns(p)
    \/ GetPull(p)

Handler(p) ==
    \/ ListReceive(p)
    \/ CreateReceive(p)
    \/ UpdateReceive(p)
    \/ DeleteReceive(p)
    \/ GetReceive(p)
    \/ Progress(p)

\* Requests served one at a time: the next is dispatched after the previous
\* one has responded.
Next == \E p \in SeqProcs : Handler(p)

Spec == Init /\ [][Next]_vars

\* The same, for runs of at most MaxLiveReqs requests.
LiveHandler(p) ==
    \/ nreq < MaxLiveReqs /\ ListReceive(p)
    \/ nreq < MaxLiveReqs /\ CreateReceive(p)
    \/ nreq < MaxLiveReqs /\ UpdateReceive(p)
    \/ nreq < MaxLiveReqs /\ DeleteReceive(p)
    \/ nreq < MaxLiveReqs /\ GetReceive(p)
    \/ Progress(p)

LiveNext == \E p \in SeqProcs : LiveHandler(p)

\* Every store call eventually returns (a result or an error).

FairSpec ==
    Init /\ [][LiveNext]_vars /\ \A p \in SeqProcs : WF_vars(Progress(p))

\* One task per request, tasks running concurrently: a second request is
\* dispatched while the first awaits the store, and the store serves their
\* statements one at a time in either order.  Tasks are interchangeable, so a
\* request is given to the first task that serves none.  Runs of at most
\* MaxConcReqs requests.
FirstFree(p) == p = "t1" \/ req["t1"].pc \in {"exec", "pull"}

ConcReceive(p) == nreq < MaxConcReqs /\ FirstFree(p)

ConcHandler(p) ==
    \/ ConcReceive(p) /\ ListReceive(p)
    \/ ConcReceive(p) /\ CreateReceive(p)
    \/ ConcReceive(p) /\ UpdateReceive(p)
    \/ ConcReceive(p) /\ DeleteReceive(p)
    \/ ConcReceive(p) /\ GetReceive(p)
    \/ Progress(p)

ConcNext == \E p \in Procs : ConcHandler(p)

\* The server with one record in its store: the state after a Create of
\* ("A", "B") has responded 201 and its task has been released.
ConcInit ==
    /\ store = [u \in Uuids |->
                  IF u = "u1" THEN [live |-> TRUE, name |-> "A", email |-> "B"]
                  ELSE NoRow]
    /\ issued = <<"u1">>
    /\ life = [u \in Uuids |-> IF u = "u1" THEN "live" ELSE "never"]
    /\ req = [p \in Procs |-> Idle]
    /\ last = NoLast
    /\ nreq = 0

ConcSpec == ConcInit /\ [][ConcNext]_vars

\* ------------------------------------------------------------------ properties

Done(p) == req[p].pc = "done"

InFlight(p) == req[p].pc \in {"exec", "pull"}

Serves(p, op) == req[p].op = op

\* A row that is a Record: all three fields set.
IsRecord(row) == row.live /\ row.name # Null /\ row.email # Null

\* The number of fields an update payload carries.
NumPresent(r) ==
    (IF r.name # None THEN 1 ELSE 0) + (IF r.email # None THEN 1 ELSE 0)

\* The store, or the transport to it, failed during the request.
StoreFailed(r) == r.fault \in {"exec", "type", "pull"}

\* The users of a collection that carry id u.
Occurrences(users, u) == {i \in 1..Len(users) : users[i].id = u}

\* --- C1
\* C1 (as claimed): an Update whose payload has neither name nor email is a
\* no-op: it responds 200, the record with that id is unchanged, and the
\* statement it sent, if any, has a SET clause with at least one assignment.
\* (Requests in which the store reported a failure of its own are left out.)
C1_EmptyUpdateIsNoOp ==
    \A p \in Procs :
        (/\ Serves(p, "update") /\ Done(p)
         /\ req[p].name = None /\ req[p].email = None
         /\ req[p].fault # "exec")
        => /\ req[p].status = Ok
           /\ store[req[p].id] = req[p].pre
           /\ ValidAssignments(SetClause(req[p].query))

\* --- C2
\* C2 (as claimed): a Get-by-id whose pull of the first row failed (transport
\* or row decoding) responds 500, never 404 and never 200.
C2_GetPullFailureIsFault ==
    \A p \in Procs :
        (Serves(p, "get") /\ Done(p) /\ req[p].fault \in {"pull", "decode"})
        => req[p].status = InternalServerError

\* --- C3
\* C3 (as claimed): a Get-by-id on an id that was never created, or was created
\* and then deleted, responds 404 when nothing failed while it was served.
C3_AbsentIdIsNotFound ==
    \A p \in Procs :
        (/\ Serves(p, "get") /\ Done(p)
         /\ req[p].fault = "none"
         /\ life[req[p].id] \in {"never", "deleted"})
        => req[p].status = NotFound

\* --- C4

\* A successful update of an existing Record that carried some, not all, fields.
PartialUpdateOfRecord(s) ==
    /\ s.op = "update"
    /\ s.status = Ok
    /\ IsRecord(s.pre)
    /\ (s.name = None) # (s.email = None)

\* The Record such an update leaves: present fields new, absent fields old.
Merged(s) ==
    User(s.id,
         IF s.name # None THEN s.name ELSE s.pre.name,
         IF s.email # None THEN s.email ELSE s.pre.email)

\* When such an update responds, the row holds the present fields' new values
\* and the absent fields' old ones.
PartialUpdateStored ==
    \A p \in Procs :
        (Serves(p, "update") /\ Done(p) /\ PartialUpdateOfRecord(Summary(req[p])))
        => /\ store[req[p].id].live
           /\ RowOf(store, req[p].id) = Merged(Summary(req[p]))

\* C4 (as claimed): after a successful partial update of an existing record the
\* row holds the new values of the present fields and the old values of the
\* absent ones, and the Get-by-id that follows responds 200 with that Record.
C4_PartialUpdateThenGet ==
    /\ PartialUpdateStored
    /\ \A p \in Procs :
          (Serves(p, "get") /\ Done(p) /\ PartialUpdateOfRecord(req[p].prev))
          => /\ req[p].status = Ok
             /\ req[p].user = Merged(req[p].prev)

\* C4 (amended): after a successful partial update of an existing record the
\* row holds the new values of the present fields and the old values of the
\* absent ones, and the Get-by-id that follows responds 200 with that Record
\* when neither the store nor the transport fails during it; a Get-by-id during
\* which one fails responds 404 or 500 and returns no Record.
C4_PartialUpdateThenGetUnlessStoreFails ==
    /\ PartialUpdateStored
    /\ \A p \in Procs :
          (Serves(p, "get") /\ Done(p) /\ PartialUpdateOfRecord(req[p].prev))
          => IF StoreFailed(req[p])
             THEN req[p].status \in {NotFound, InternalServerError}
             ELSE /\ req[p].status = Ok
                  /\ req[p].user = Merged(req[p].prev)

\* An update of only the name changed the name and a Get returned the new name
\* with the old email.
C4_Witness ==
    \E p \in Procs :
        /\ Serves(p, "get") /\ Done(p) /\ PartialUpdateOfRecord(req[p].prev)
        /\ req[p].prev.name # None
        /\ req[p].prev.name # req[p].prev.pre.name
        /\ req[p].status = Ok
        /\ req[p].user.name = req[p].prev.name
        /\ req[p].user.email = req[p].prev.pre.email
        /\ req[p].user.email # req[p].user.name

\* --- C5

\* C5 (as claimed): the Get-by-id that follows a successful Delete of the same
\* id responds 404.
C5_DeleteThenGetNotFound ==
    \A p \in Procs :
        (Serves(p, "get") /\ Done(p) /\ req[p].prev.op = "delete")
        => req[p].status = NotFound

\* C5 (amended): it responds 404, or 500 when the store fails to execute the
\* lookup; it never responds 200.
C5_DeleteThenGetNotFoundUnlessStoreFails ==
    \A p \in Procs :
        (Serves(p, "get") /\ Done(p) /\ req[p].prev.op = "delete")
        => \/ req[p].status = NotFound
           \/ /\ req[p].status = InternalServerError
              /\ req[p].fault \in {"exec", "type"}

\* A Record was deleted and the Get that followed, served without failure,
\* responded 404.
C5_Witness ==
    \E p \in Procs :
        /\ Serves(p, "get") /\ Done(p) /\ req[p].prev.op = "delete"
        /\ IsRecord(req[p].prev.pre)
        /\ req[p].fault = "none"
        /\ req[p].status = NotFound

\* --- C6

\* The id of a creation differs from every id issued before it.
FreshId(p) ==
    \E i \in 1..Len(issued) :
        /\ issued[i] = req[p].id
        /\ \A j \in 1..Len(issued) : j # i => issued[j] # req[p].id

\* The Record a successful creation stores.
CreatedRecord(s) == User(s.id, s.name, s.email)

\* C6 (as claimed): every Create responds 201 with an id distinct from every id
\* issued before, and the Get-by-id that follows on that id responds 200 with
\* the Record of that id and the submitted name and email.
C6_CreateThenGet ==
    /\ \A p \in Procs :
          (Serves(p, "create") /\ Done(p))
          => req[p].status = Created /\ FreshId(p)
    /\ \A p \in Procs :
          (Serves(p, "get") /\ Done(p) /\ req[p].prev.op = "create")
          => /\ req[p].status = Ok
             /\ req[p].user = CreatedRecord(req[p].prev)

\* C6 (amended): every Create responds 201, or 500 when the store fails to
\* execute the insert; its id is distinct from every id issued before; after a
\* 201 the row holds the submitted values, and the Get-by-id that follows on
\* that id responds 200 with that Record when neither the store nor the
\* transport fails during it, and returns no Record otherwise.
C6_CreateThenGetUnlessStoreFails ==
    /\ \A p \in Procs :
          (Serves(p, "create") /\ InFlight(p)) => FreshId(p)
    /\ \A p \in Procs :
          (Serves(p, "create") /\ Done(p))
          => /\ FreshId(p)
             /\ IF req[p].fault = "none"
                THEN /\ req[p].status = Created
                     /\ store[req[p].id].live
                     /\ RowOf(store, req[p].id) = CreatedRecord(req[p])
                ELSE req[p].status = InternalServerError
    /\ \A p \in Procs :
          (Serves(p, "get") /\ Done(p) /\ req[p].prev.op = "create")
          => IF StoreFailed(req[p])
             THEN req[p].status \in {NotFound, InternalServerError}
             ELSE /\ req[p].status = Ok
                  /\ req[p].user = CreatedRecord(req[p].prev)

\* The second creation of a run answered 201 and the Get that followed returned
\* its Record, name and email distinct.
C6_Witness ==
    \E p \in Procs :
        /\ Serves(p, "get") /\ Done(p) /\ req[p].prev.op = "create"
        /\ Len(issued) = 2
        /\ req[p].id = issued[2]
        /\ req[p].status = Ok
        /\ req[p].user = CreatedRecord(req[p].prev)
        /\ req[p].user.name # req[p].user.email

\* --- C7
\* C7 (as claimed): a List that completes without fault responds 200 with a
\* collection that holds every created and not deleted Record exactly once,
\* with its current name and email, and holds no deleted Record.
C7_ListReturnsLiveRecords ==
    \A p \in Procs :
        (Serves(p, "list") /\ Done(p) /\ req[p].fault = "none")
        => /\ req[p].status = Ok
           /\ \A u \in Uuids :
                 /\ life[u] = "live" =>
                       /\ Cardinality(Occurrences(req[p].users, u)) = 1
                       /\ \A i \in Occurrences(req[p].users, u) :
                             req[p].users[i] = RowOf(store, u)
                 /\ life[u] = "deleted" => Occurrences(req[p].users, u) = {}

\* --- C8
\* C8 (as claimed): the statement of an Update holds no value of the request:
\* its id predicate is a bind marker, the id is the last bound value, and the
\* bound values are one more than the present fields.
C8_UpdateBindsId ==
    \A p \in Procs :
        (Serves(p, "update") /\ (InFlight(p) \/ Done(p)))
        => /\ \A i \in 1..Len(req[p].query) :
                 /\ ~IsUuidLiteral(req[p].query[i])
                 /\ req[p].query[i] \notin Vals
           /\ req[p].query[Len(req[p].query)] = "?"
           /\ Len(req[p].params) = NumPresent(req[p]) + 1
           /\ req[p].params[Len(req[p].params)] = req[p].id

\* --- C9
\* C9: in List, a failure while pulling a row (the first or a later one) ends
\* the request with 500; a 200 is given only when the sequence reached its end,
\* and its collection holds every row the store delivered, in that order.
C9_ListPullFailureAborts ==
    \A p \in Procs :
        (Serves(p, "list") /\ Done(p))
        => /\ req[p].fault # "none" => req[p].status = InternalServerError
           /\ req[p].status = Ok =>
                 /\ req[p].fault = "none"
                 /\ req[p].users = req[p].served

\* A List failed on a later row, after it had pulled one, and responded 500.
C9_Witness ==
    \E p \in Procs :
        /\ Serves(p, "list") /\ Done(p)
        /\ req[p].fault = "pull"
        /\ Len(req[p].users) >= 1
        /\ Len(req[p].users) < Len(req[p].served)
        /\ req[p].status = InternalServerError

\* --- C10
\* C10: every request a handler has received reaches a terminal state (200 or
\* 201, 404, 500), when every store call returns; it responds once.
C10_EveryRequestRespondsOnce ==
    /\ [](\A p \in Procs :
            /\ req[p].nresp <= 1
            /\ InFlight(p) => req[p].nresp = 0
            /\ Done(p) =>
                  /\ req[p].nresp = 1
                  /\ req[p].status \in {Ok, Created, NotFound, InternalServerError})
    /\ \A p \in Procs : InFlight(p) ~> Done(p)

\* A List drained a row and responded 200.
C10_Witness ==
    \E p \in Procs :
        /\ Serves(p, "list") /\ Done(p)
        /\ req[p].status = Ok
        /\ Len(req[p].users) >= 1

\* The execution of the request's statement failed (query_iter or
\* query_unpaged returned Err).
ExecFailed(r) == r.fault \in {"exec", "syntax"}

\* C11: no handler retries.  Each request sends its statement to the store at
\* most once; while it awaits that execution it has made no store call yet;
\* and when the execution fails the request is answered 500 at once, having
\* executed once and pulled no row.
C11_NoRetries ==
    \A p \in Procs :
        /\ req[p].nexec <= 1
        /\ req[p].pc = "exec" => req[p].nexec = 0 /\ req[p].npull = 0
        /\ req[p].pc = "pull" => req[p].nexec = 1
        /\ ExecFailed(req[p]) =>
               /\ Done(p)
               /\ req[p].status = InternalServerError
               /\ req[p].nexec = 1
               /\ req[p].npull = 0

\* An Update whose execution failed has been answered.
C11_Witness ==
    \E p \in Procs :
        /\ Done(p) /\ req[p].op = "update"
        /\ req[p].fault = "exec"
        /\ req[p].status = InternalServerError
        /\ req[p].nexec = 1

\* --- C12
\* C12: Delete and Update never respond 404; and a Delete, or an Update with
\* at least one field present, whose statement the store executed without
\* fault responds 200, whether or not a row with the id existed.
C12_SuccessWithoutRow ==
    \A p \in Procs :
        Done(p) /\ req[p].op \in {"update", "delete"} =>
            /\ req[p].status # NotFound
            /\ (req[p].op = "delete" \/ NumPresent(req[p]) >= 1)
                   /\ req[p].fault = "none"
                   => req[p].status = Ok

\* A Delete of an id without a row has been answered 200.
C12_Witness ==
    \E p \in Procs :
        /\ Done(p) /\ req[p].op = "delete"
        /\ req[p].fault = "none" /\ ~req[p].pre.live
        /\ req[p].status = Ok

\* --- C13
\* C13: for every Update with at least one field present, the SET clause of
\* the built statement has one assignment per present field and none for an
\* absent one, name before email, separated by a comma, with no comma before
\* WHERE; the bound values are the present fields' values in the same order;
\* the clause depends on nothing but which fields are present.
C13_SetClauseShape ==
    \A p \in Procs :
        req[p].op = "update" /\ NumPresent(req[p]) >= 1 =>
            LET r == req[p]
                w == IndexOf(r.query, "WHERE", 1)
            IN  /\ w > 4
                /\ r.query[w - 1] # ","
                /\ SetClause(r.query) =
                      CASE r.name # None /\ r.email # None ->
                               <<"name", "=", "?", ",", "email", "=", "?">>
                        [] r.name # None /\ r.email = None ->
                               <<"name", "=", "?">>
                        [] OTHER ->
                               <<"email", "=", "?">>
                /\ r.params =
                      CASE r.name # None /\ r.email # None -> <<r.name, r.email>>
                        [] r.name # None /\ r.email = None -> <<r.name>>
                        [] OTHER -> <<r.email>>

\* An Update carrying two different values for name and email has built its
\* statement.
C13_Witness ==
    \E p \in Procs :
        /\ req[p].op = "update" /\ req[p].pc = "exec"
        /\ req[p].name = "A" /\ req[p].email = "B"
        /\ Len(req[p].params) = 2

\* --- C14
\* C14 (as claimed): after any sequence of Create, Update and Delete
\* requests every row of the store has id, name and email set, and a row
\* exists only for an id that a Create inserted and no Delete has removed
\* since: an Update of an id never created, or already deleted, brings no
\* row into existence.
C14_UpdateCreatesNoRow ==
    \A u \in Uuids :
        /\ store[u].live => IsRecord(store[u])
        /\ life[u] # "live" => ~store[u].live

\* --- C16
\* C16: List and Get-by-id never mutate the store.  No step of a List or of a
\* Get-by-id request, from the execution of its statement to its response
\* (200, 404 or 500), changes the set of rows or a field of a row.
C16_ReadsDoNotMutate ==
    [][\A p \in Procs :
          req[p].op \in {"list", "get"} /\ InFlight(p) /\ req'[p] # req[p]
              => store' = store]_vars

\* A Get-by-id has returned a record, and the row is in the store as returned.
C16_Witness ==
    \E p \in Procs :
        /\ Done(p) /\ req[p].op = "get" /\ req[p].status = Ok
        /\ store[req[p].id] =
              [live |-> TRUE, name |-> req[p].user.name, email |-> req[p].user.email]

\* --- C17
\* C17: List consumes the row sequence once, one row per pull, until its end.
\* It executes its statement once; while it pulls, the rows collected so far
\* followed by the rows not yet pulled are the sequence the store delivered,
\* with one pull made per row collected; and a 200 response holds the whole
\* delivered sequence in its order, one Record per row, after one more pull
\* that met the end of the sequence.
C17_ListDrainsInOrder ==
    \A p \in Procs :
        Serves(p, "list") =>
            /\ req[p].nexec <= 1
            /\ req[p].pc = "pull" =>
                   /\ req[p].users \o req[p].stream = req[p].served
                   /\ req[p].npull = Len(req[p].users)
            /\ Done(p) /\ req[p].status = Ok =>
                   /\ req[p].nexec = 1
                   /\ req[p].users = req[p].served
                   /\ req[p].npull = Len(req[p].served) + 1
                   /\ \A i \in 1..Len(req[p].users) : Decodes(req[p].users[i])

\* A List has answered 200 with two rows.
C17_Witness ==
    \E p \in Procs :
        /\ Serves(p, "list") /\ Done(p) /\ req[p].status = Ok
        /\ Len(req[p].users) = 2
        /\ req[p].users[1] # req[p].users[2]
        /\ req[p].npull = 3

\* --- C18
\* C18: the id is the sole key and is immutable.  The SET clause of an Update
\* never assigns the id column; a step of an Update or of a Delete addressed
\* to id X changes no row whose id differs from X, and an Update leaves a row
\* that was under X under X; a step of a Create changes no row that exists.
C18_IdIsSoleKey ==
    /\ [](\A p \in Procs :
            req[p].op = "update" =>
                \A i \in 1..Len(req[p].query) : req[p].query[i] = "id" =>
                    /\ i > IndexOf(req[p].query, "WHERE", 1)
                    /\ req[p].query[Len(req[p].query)] = Display(req[p].id))
    /\ [][\A p \in Procs :
            InFlight(p) /\ req'[p] # req[p] =>
               /\ req[p].op \in {"update", "delete"} =>
                      \A u \in Uuids \ {req[p].id} : store'[u] = store[u]
               /\ req[p].op = "update" /\ store[req[p].id].live =>
                      store'[req[p].id].live
               /\ req[p].op = "create" =>
                      \A u \in Uuids : store[u].live => store'[u] = store[u]]_vars

\* An Update of one of two records has succeeded and changed its row; the
\* other record is in the store.
C18_Witness ==
    \E p \in Procs :
        /\ Done(p) /\ req[p].op = "update" /\ req[p].status = Ok
        /\ req[p].pre.live
        /\ store[req[p].id] # req[p].pre
        /\ \E u \in Uuids \ {req[p].id} : IsRecord(store[u])

\* --- C15
\* Task p serves, or has served, an Update of id u that carries only a name.
NameOnly(p, u) ==
    /\ req[p].op = "update" /\ req[p].id = u
    /\ req[p].name # None /\ req[p].email = None

\* Task p serves, or has served, an Update of id u that carries only an email.
EmailOnly(p, u) ==
    /\ req[p].op = "update" /\ req[p].id = u
    /\ req[p].name = None /\ req[p].email # None

\* The requests of p and q ran concurrently: one arrived while the other was
\* awaiting the store.
Overlap(p, q) == req[p].seq \in req[q].conc \/ req[q].seq \in req[p].conc

\* C15: when a name-only Update and an email-only Update of the same existing
\* record run concurrently and both have responded 200, the record holds the
\* name of the one and the email of the other, in whichever order the store
\* served them.
C15_ConcurrentUpdatesMerge ==
    \A p \in Procs : \A q \in Procs \ {p} : \A u \in Uuids :
        /\ NameOnly(p, u) /\ EmailOnly(q, u)
        /\ Overlap(p, q)
        /\ Done(p) /\ req[p].status = Ok
        /\ Done(q) /\ req[q].status = Ok
        /\ life[u] = "live"
        => store[u] = [live |-> TRUE, name |-> req[p].name, email |-> req[q].email]

\* Two such Updates have responded 200, the store having served the one that
\* arrived second first; the record holds both new values.
C15_Witness ==
    \E p \in Procs : \E q \in Procs \ {p} : \E u \in Uuids :
        /\ NameOnly(p, u) /\ EmailOnly(q, u)
        /\ req[p].seq \in req[q].conc
        /\ Done(p) /\ req[p].status = Ok
        /\ Done(q) /\ req[q].status = Ok
        /\ IsRecord(req[q].pre)
        /\ req[p].pre = [req[q].pre EXCEPT !.email = req[q].email]
        /\ req[p].name # req[q].pre.name
        /\ req[q].email # req[q].pre.email
        /\ store[u] = [live |-> TRUE, name |-> req[p].name, email |-> req[q].email]

====
